---- MODULE Spec2Model ----
(***************************************************************************)
(* VectorStore (rag-knowledge-base-complete_1/vector_store.py): a FAISS    *)
(* inner-product index with two parallel Python lists (texts, metadata),   *)
(* persisted as two files.  add_documents and similarity_search are        *)
(* coroutines that suspend once, at the embedding call; everything else    *)
(* runs without suspension on the event loop.                              *)
(***************************************************************************)
EXTENDS Integers, Sequences, FiniteSets, TLC

\* ---------------------------------------------------------------- bounds
\* Most entries the store is let to hold.
MaxEntries == 2

\* self.dimension = 384 in the source; the model scales it down so that
\* vectors can be enumerated.
dimension == 2

Tasks == {"t1", "t2"}
Texts == {"cat", "dog"}
Models == {"all-MiniLM-L6-v2", "paraphrase-MiniLM-L6-v2"}
DefaultModel == "all-MiniLM-L6-v2"
\* The application constructs VectorStore() with the default model.
AppModels == {DefaultModel}
Meta1 == [doc_id |-> "d1", chunk_id |-> 0, source |-> "doc1"]
Meta2 == [doc_id |-> "d2", chunk_id |-> 0, source |-> "doc2"]

\* Arguments of add_documents: batches of equal and of unequal lengths.
Batch(ts, ms) == [texts |-> ts, metadatas |-> ms]
Batches ==
    {Batch(<<>>, <<>>),
     Batch(<<"cat">>, <<Meta1>>),
     Batch(<<"dog">>, <<Meta2>>),
     Batch(<<"cat", "dog">>, <<Meta1, Meta2>>),
     Batch(<<"cat">>, <<>>),
     Batch(<<>>, <<Meta1>>),
     Batch(<<"cat", "dog">>, <<Meta1>>)}

\* k: int = 5, the default of similarity_search.
DefaultK == 5
Ks == {0, 1, DefaultK}
Queries == {"cat"}

Min(a, b) == IF a < b THEN a ELSE b

Max(a, b) == IF a > b THEN a ELSE b

VARIABLES model_name, index, texts, metadata, disk, task, last

\* issued[o]: how many entries add_documents has placed at offset o since
\* the VectorStore was constructed.
VARIABLE issued

\* hashseed: the order in which the process's str hashes make a set of
\* source names iterate (PYTHONHASHSEED, drawn when the interpreter starts).
VARIABLE hashseed

\* LLMService (rag-knowledge-base-complete_1/llm_service.py).
\* environ: whether OPENAI_API_KEY is set in the process environment.
\* use_openai: self.use_openai.  request: the arguments a specification
\* of the fallback fixes at the start.  reply: the most recent
\* generate_response call and what it returned.
VARIABLES environ, use_openai, request, reply

\* The FastAPI application (main.py, as written out by script_1.py).
\* documents_db, chunks_db: the two module-level in-memory tables.
\* uploads: the doc ids with a file in the upload directory.  uuids: the
\* ids uuid4 has returned.  handler: where the request in flight stands.
\* http: the most recent response.
VARIABLES documents_db, chunks_db, uploads, uuids, handler, http

vars == <<model_name, index, texts, metadata, disk, task, last, issued,
          hashseed,
          environ, use_openai, request, reply,
          documents_db, chunks_db, uploads, uuids, handler, http>>

\* ------------------------------------------------------- embedding encoder
\* SentenceTransformer.encode: one vector per text, deterministic for a
\* model.  Each text is sent to one axis with a model-specific magnitude.
Axis(text) == IF text = "cat" THEN 1 ELSE 2

Magnitude(model, text) ==
    IF model = DefaultModel
    THEN (IF text = "cat" THEN 2 ELSE 3)
    ELSE (IF text = "cat" THEN -2 ELSE 4)

\* A model whose embeddings are wider than self.dimension (768 against
\* 384 in the source).
WideModel == "all-mpnet-base-v2"

\* get_sentence_embedding_dimension of the model.
output_dim(model) == IF model = WideModel THEN dimension + 1 ELSE dimension

encode_texts(model, ts) ==
    [i \in 1..Len(ts) |->
        [c \in 1..output_dim(model) |->
            IF c = Axis(ts[i]) THEN Magnitude(model, ts[i]) ELSE 0]]

\* ---------------------------------------------------------------- faiss
Abs(x) == IF x < 0 THEN -x ELSE x

RECURSIVE SumAbs(_, _)
SumAbs(v, n) == IF n = 0 THEN 0 ELSE Abs(v[n]) + SumAbs(v, n - 1)

\* faiss.normalize_L2 on one row: divide by the norm, a zero row is left
\* alone.  Rows are axis-aligned, so the L2 norm is the sum of magnitudes.
normalize_row(v) ==
    LET nrm == SumAbs(v, Len(v))
    IN  IF nrm = 0 THEN v ELSE [c \in 1..Len(v) |-> v[c] \div nrm]

normalize_L2(m) == [i \in 1..Len(m) |-> normalize_row(m[i])]

RECURSIVE Dot(_, _, _)
Dot(a, b, n) == IF n = 0 THEN 0 ELSE a[n] * b[n] + Dot(a, b, n - 1)

IndexFlatIP(d) == [d |-> d, xb |-> <<>>]

ntotal(ix) == Len(ix.xb)

\* index.add without the assertion on the width of the rows.
IndexAddOk_Unchecked(ix, rows) == TRUE

\* index.add: rows must have the index's dimension (faiss asserts it).
IndexAddOk(ix, rows) == \A i \in 1..Len(rows) : Len(rows[i]) = ix.d

IndexAdd(ix, rows) == [ix EXCEPT !.xb = ix.xb \o rows]

\* A scan that returns the worst inner product first.
IndexSearch_Ascending(ix, xq, k) ==
    LET n == ntotal(ix)
        score(i) == Dot(xq, ix.xb[i], ix.d)
        before(j, i) == score(j) < score(i) \/ (score(j) = score(i) /\ j < i)
        rank(i) == 1 + Cardinality({j \in 1..n : before(j, i)})
        at(r) == CHOOSE i \in 1..n : rank(i) = r
    IN  [r \in 1..k |->
            IF r <= n THEN [score |-> score(at(r)), idx |-> at(r) - 1]
                      ELSE [score |-> -2, idx |-> -1]]

\* index.search(xq, k): exact scan, best inner product first, equal scores
\* by ascending offset; (score, offset) pairs with 0-based offsets, padded
\* with offset -1 when k exceeds the number of vectors.
IndexSearch(ix, xq, k) ==
    LET n == ntotal(ix)
        score(i) == Dot(xq, ix.xb[i], ix.d)
        before(j, i) == score(j) > score(i) \/ (score(j) = score(i) /\ j < i)
        rank(i) == 1 + Cardinality({j \in 1..n : before(j, i)})
        at(r) == CHOOSE i \in 1..n : rank(i) = r
    IN  [r \in 1..k |->
            IF r <= n THEN [score |-> score(at(r)), idx |-> at(r) - 1]
                      ELSE [score |-> -2, idx |-> -1]]

\* ------------------------------------------------------------ persistence
\* A file is missing, corrupt (a write that stopped part-way) or ok.
\* The index file holds what faiss.write_index serialises for a flat index:
\* d, ntotal and the vectors as one flat array of codes.
NoIndexFile(st) == [state |-> st, d |-> 0, ntotal |-> 0, codes |-> <<>>]

\* The side-table file holds the pickled dict.
NoMetaFile(st) ==
    [state |-> st,
     data |-> [metadata |-> <<>>, texts |-> <<>>, model_name |-> ""]]

RECURSIVE Flatten(_)
Flatten(rows) ==
    IF rows = <<>> THEN <<>> ELSE Head(rows) \o Flatten(Tail(rows))

write_index(ix) ==
    [state |-> "ok", d |-> ix.d, ntotal |-> ntotal(ix),
     codes |-> Flatten(ix.xb)]

read_index(f) ==
    [d |-> f.d,
     xb |-> [i \in 1..f.ntotal |->
                SubSeq(f.codes, (i - 1) * f.d + 1, i * f.d)]]

pickle_dump(md, ts, mn) ==
    [state |-> "ok",
     data |-> [metadata |-> md, texts |-> ts, model_name |-> mn]]

\* dict.get(key, default)
get(data, key, default) ==
    IF key \in DOMAIN data THEN data[key] ELSE default

\* Where a persistence write can stop.  "ok": both files written.
\* "index_open": write_index fails before touching the file.
\* "index_write": write_index fails part-way.  "meta_open": open(..., 'wb')
\* fails.  "meta_write": pickle.dump fails after the file was truncated.
SaveOutcomes == {"ok", "index_open", "index_write", "meta_open", "meta_write"}

\* _save_index: the disk after the write; the exception is swallowed.
save_index(ix, md, ts, mn, dk, outcome) ==
    CASE outcome = "index_open"  -> dk
      [] outcome = "index_write" -> [dk EXCEPT !.index = NoIndexFile("corrupt")]
      [] outcome = "meta_open"   -> [dk EXCEPT !.index = write_index(ix)]
      [] outcome = "meta_write"  -> [index |-> write_index(ix),
                                    meta |-> NoMetaFile("corrupt")]
      [] OTHER                   -> [index |-> write_index(ix),
                                    meta |-> pickle_dump(md, ts, mn)]

\* In-memory part of a VectorStore.
Store(ix, ts, md) == [index |-> ix, texts |-> ts, metadata |-> md]

EmptyStore == Store(IndexFlatIP(dimension), <<>>, <<>>)

\* Read failures on files that are present and well-formed.
LoadOutcomes == {"ok", "index_read", "meta_read"}

exists(f) == f.state # "missing"

\* Whether the try block of _load_index raises.
load_raises(dk, outcome) ==
    /\ exists(dk.index) /\ exists(dk.meta)
    /\ \/ dk.index.state = "corrupt" \/ outcome = "index_read"
       \/ dk.meta.state = "corrupt" \/ outcome = "meta_read"

\* _load_index that starts fresh when the side-table names another model.
load_index_RejectsMismatch(dk, mn, outcome) ==
    IF exists(dk.index) /\ exists(dk.meta)
    THEN IF load_raises(dk, outcome)
            \/ get(dk.meta.data, "model_name", mn) # mn
         THEN EmptyStore
         ELSE Store(read_index(dk.index),
                    get(dk.meta.data, "texts", <<>>),
                    get(dk.meta.data, "metadata", <<>>))
    ELSE EmptyStore

\* Lines 150-153: the load logs "Model mismatch".
load_warns(dk, mn, outcome) ==
    /\ exists(dk.index) /\ exists(dk.meta)
    /\ ~load_raises(dk, outcome)
    /\ get(dk.meta.data, "model_name", mn) # mn

\* _load_index reading the texts under a key the side-table does not hold.
load_index_MisspelledKey(dk, mn, outcome) ==
    IF exists(dk.index) /\ exists(dk.meta)
    THEN IF load_raises(dk, outcome)
         THEN EmptyStore
         ELSE Store(read_index(dk.index),
                    get(dk.meta.data, "text", <<>>),
                    get(dk.meta.data, "metadata", <<>>))
    ELSE EmptyStore

\* _load_index whose except block resets the two lists but not the index.
load_index_KeepsIndex(dk, mn, outcome) ==
    IF exists(dk.index) /\ exists(dk.meta)
    THEN IF load_raises(dk, outcome)
         THEN IF dk.index.state = "ok" /\ outcome # "index_read"
              THEN Store(read_index(dk.index), <<>>, <<>>)
              ELSE EmptyStore
         ELSE Store(read_index(dk.index),
                    get(dk.meta.data, "texts", <<>>),
                    get(dk.meta.data, "metadata", <<>>))
    ELSE EmptyStore

\* _load_index, run by __init__ on a fresh (empty) store.
load_index(dk, mn, outcome) ==
    IF exists(dk.index) /\ exists(dk.meta)
    THEN IF load_raises(dk, outcome)
         THEN EmptyStore
         ELSE Store(read_index(dk.index),
                    get(dk.meta.data, "texts", <<>>),
                    get(dk.meta.data, "metadata", <<>>))
    ELSE EmptyStore

stats_of(st, mn) ==
    [total_vectors |-> ntotal(st.index),
     dimension |-> dimension,
     model_name |-> mn,
     total_texts |-> Len(st.texts),
     total_metadata |-> Len(st.metadata)]

get_stats == stats_of(Store(index, texts, metadata), model_name)

\* ------------------------------------------------------------------ state
\* task[t]: a caller's coroutine, idle or suspended at the await of
\* _generate_embeddings with the arguments of its call.
IdleTask == [pc |-> "idle", texts |-> <<>>, metadatas |-> <<>>,
             query |-> "", k |-> 0]

NoStats == [total_vectors |-> 0, dimension |-> 0, model_name |-> "",
            total_texts |-> 0, total_metadata |-> 0]

\* last: the most recent call that returned or raised: its outcome, the
\* lengths n, m of the two arguments of add_documents, the k of
\* similarity_search, the number of embedding calls and persistence writes
\* it made, and how its file operations ended ("none" when it made none).
\* The store and the files change only in a step that also sets last.
Returned(t, op, status) ==
    [op |-> op, status |-> status, n |-> 0, m |-> 0, k |-> 0,
     results |-> <<>>, stats |-> NoStats, encodes |-> 0, saves |-> 0,
     io |-> "none"]

\* Entries promised to calls suspended in add_documents.
RECURSIVE InFlight(_)
InFlight(S) ==
    IF S = {} THEN 0
    ELSE LET t == CHOOSE x \in S : TRUE
         IN  Len(task[t].texts) + InFlight(S \ {t})

\* The VectorStore right after construction over an empty directory.
StoreInit ==
    /\ model_name \in AppModels
    /\ index = IndexFlatIP(dimension)
    /\ texts = <<>>
    /\ metadata = <<>>
    /\ disk = [index |-> NoIndexFile("missing"), meta |-> NoMetaFile("missing")]
    /\ task = [t \in Tasks |-> IdleTask]
    /\ last = Returned("t1", "init", "ok")
    /\ issued = [o \in 0..(MaxEntries - 1) |-> 0]

\* --------------------------------------------------------- add_documents
\* add_documents without the length check of lines 43-44.
add_documents_call_NoValidation(t, ts, ms) ==
    /\ task[t].pc = "idle"
    /\ IF ts = <<>>
       THEN /\ last' = [Returned(t, "add_documents", "ok")
                           EXCEPT !.m = Len(ms)]
            /\ UNCHANGED task
       ELSE /\ Max(ntotal(index), Len(texts)) + InFlight(Tasks) + Len(ts)
                  <= MaxEntries
            /\ task' = [task EXCEPT ![t] =
                           [IdleTask EXCEPT !.pc = "add_await",
                                            !.texts = ts, !.metadatas = ms]]
            /\ UNCHANGED last
    /\ UNCHANGED <<model_name, index, texts, metadata, disk>>

\* Lines 43-52: validation, the empty-batch return, then the await.
add_documents_call(t, ts, ms) ==
    /\ task[t].pc = "idle"
    /\ IF Len(ts) # Len(ms)
       THEN /\ last' = [Returned(t, "add_documents", "ValueError")
                           EXCEPT !.n = Len(ts), !.m = Len(ms)]
            /\ UNCHANGED task
       ELSE IF ts = <<>>
       THEN /\ last' = Returned(t, "add_documents", "ok")
            /\ UNCHANGED task
       ELSE /\ Max(ntotal(index), Len(texts)) + InFlight(Tasks) + Len(ts)
                  <= MaxEntries
            /\ task' = [task EXCEPT ![t] =
                           [IdleTask EXCEPT !.pc = "add_await",
                                            !.texts = ts, !.metadatas = ms]]
            /\ UNCHANGED last
    /\ UNCHANGED <<model_name, index, texts, metadata, disk>>

\* add_documents without self.metadata.extend(metadatas).
add_documents_resume_NoMetadata(t, outcome) ==
    /\ task[t].pc = "add_await"
    /\ LET embeddings == normalize_L2(encode_texts(model_name, task[t].texts))
       IN  /\ IndexAddOk(index, embeddings)
           /\ index' = IndexAdd(index, embeddings)
           /\ texts' = texts \o task[t].texts
           /\ metadata' = metadata
           /\ disk' = save_index(index', metadata', texts', model_name,
                                 disk, outcome)
           /\ last' = [Returned(t, "add_documents", "ok")
                          EXCEPT !.n = Len(task[t].texts),
                                 !.m = Len(task[t].metadatas),
                                 !.encodes = 1, !.saves = 1,
                                 !.io = outcome]
    /\ task' = [task EXCEPT ![t] = IdleTask]
    /\ UNCHANGED model_name

\* add_documents that undoes its appends when the persistence write fails.
add_documents_resume_Rollback(t, outcome) ==
    /\ task[t].pc = "add_await"
    /\ LET embeddings == normalize_L2(encode_texts(model_name, task[t].texts))
           ix == IndexAdd(index, embeddings)
           ts == texts \o task[t].texts
           md == metadata \o task[t].metadatas
       IN  /\ IndexAddOk(index, embeddings)
           /\ index' = IF outcome = "ok" THEN ix ELSE index
           /\ texts' = IF outcome = "ok" THEN ts ELSE texts
           /\ metadata' = IF outcome = "ok" THEN md ELSE metadata
           /\ disk' = save_index(ix, md, ts, model_name, disk, outcome)
           /\ last' = [Returned(t, "add_documents", "ok")
                          EXCEPT !.n = Len(task[t].texts),
                                 !.m = Len(task[t].metadatas),
                                 !.encodes = 1, !.saves = 1,
                                 !.io = outcome]
    /\ task' = [task EXCEPT ![t] = IdleTask]
    /\ UNCHANGED model_name

\* Lines 52-67: the embeddings arrive; normalise, append, persist, return.
\* add_documents that puts its batch in front of the stored entries.
add_documents_resume_Prepends(t, outcome) ==
    /\ task[t].pc = "add_await"
    /\ LET embeddings == normalize_L2(encode_texts(model_name, task[t].texts))
       IN  /\ IndexAddOk(index, embeddings)
           /\ index' = [index EXCEPT !.xb = embeddings \o index.xb]
           /\ texts' = task[t].texts \o texts
           /\ metadata' = task[t].metadatas \o metadata
           /\ disk' = save_index(index', metadata', texts', model_name,
                                 disk, outcome)
           /\ last' = [Returned(t, "add_documents", "ok")
                          EXCEPT !.n = Len(task[t].texts),
                                 !.m = Len(task[t].metadatas),
                                 !.encodes = 1, !.saves = 1,
                                 !.io = outcome]
    /\ task' = [task EXCEPT ![t] = IdleTask]
    /\ UNCHANGED model_name

add_documents_resume(t, outcome) ==
    /\ task[t].pc = "add_await"
    /\ LET embeddings == normalize_L2(encode_texts(model_name, task[t].texts))
       IN  IF ~IndexAddOk(index, embeddings)
           THEN /\ last' = [Returned(t, "add_documents", "AssertionError")
                               EXCEPT !.n = Len(task[t].texts),
                                      !.m = Len(task[t].metadatas),
                                      !.encodes = 1]
                /\ UNCHANGED <<index, texts, metadata, disk>>
           ELSE /\ index' = IndexAdd(index, embeddings)
                /\ texts' = texts \o task[t].texts
                /\ metadata' = metadata \o task[t].metadatas
                /\ disk' = save_index(index', metadata', texts', model_name,
                                      disk, outcome)
                /\ last' = [Returned(t, "add_documents", "ok")
                               EXCEPT !.n = Len(task[t].texts),
                                      !.m = Len(task[t].metadatas),
                                      !.encodes = 1, !.saves = 1,
                                      !.io = outcome]
    /\ task' = [task EXCEPT ![t] = IdleTask]
    /\ UNCHANGED model_name

\* ----------------------------------------------------- similarity_search
\* similarity_search without the empty-index return of lines 74-75.
similarity_search_call_NoEmptyCheck(t, q, k) ==
    /\ task[t].pc = "idle"
    /\ task' = [task EXCEPT ![t] =
                   [IdleTask EXCEPT !.pc = "search_await",
                                    !.query = q, !.k = k]]
    /\ UNCHANGED <<model_name, index, texts, metadata, disk, last>>

\* similarity_search that waits until no other call is suspended.
similarity_search_call_Serialized(t, q, k) ==
    /\ task[t].pc = "idle"
    /\ \A u \in Tasks \ {t} : task[u].pc = "idle"
    /\ IF ntotal(index) = 0
       THEN /\ last' = [Returned(t, "similarity_search", "ok") EXCEPT !.k = k]
            /\ UNCHANGED task
       ELSE /\ task' = [task EXCEPT ![t] =
                           [IdleTask EXCEPT !.pc = "search_await",
                                            !.query = q, !.k = k]]
            /\ UNCHANGED last
    /\ UNCHANGED <<model_name, index, texts, metadata, disk>>

\* Lines 74-78: the empty-index return, else the await.
similarity_search_call(t, q, k) ==
    /\ task[t].pc = "idle"
    /\ IF ntotal(index) = 0
       THEN /\ last' = [Returned(t, "similarity_search", "ok") EXCEPT !.k = k]
            /\ UNCHANGED task
       ELSE /\ task' = [task EXCEPT ![t] =
                           [IdleTask EXCEPT !.pc = "search_await",
                                            !.query = q, !.k = k]]
            /\ UNCHANGED last
    /\ UNCHANGED <<model_name, index, texts, metadata, disk>>

\* Lines 88-96: keep the hits with a valid offset, in scan order.
RECURSIVE format_results(_, _, _)
format_results(hits, ts, md) ==
    IF hits = <<>> THEN <<>>
    ELSE LET h == Head(hits)
             rest == format_results(Tail(hits), ts, md)
         IN  IF h.idx < Len(ts) /\ h.idx # -1
             THEN <<[text |-> ts[h.idx + 1], metadata |-> md[h.idx + 1],
                     score |-> h.score]>> \o rest
             ELSE rest

\* A formatting loop that raises on a hit it should skip.
format_raises_OnInvalid(hits, ts, md) ==
    \E i \in 1..Len(hits) :
        \/ hits[i].idx >= Len(ts)
        \/ hits[i].idx = -1
        \/ hits[i].idx >= Len(md)

\* self.metadata[idx] raises for a kept hit beyond the metadata list.
format_raises(hits, ts, md) ==
    \E i \in 1..Len(hits) :
        /\ hits[i].idx < Len(ts) /\ hits[i].idx # -1
        /\ hits[i].idx >= Len(md)

\* Lines 78-98 on a store st with the encoder of model mn: normalise the
\* query embedding, clamp k, scan, format.  faiss rejects k <= 0 in recent
\* releases and returns no hit in older ones: rejects is the release at
\* hand.
search(st, mn, q, k0, rejects) ==
    LET xq == normalize_L2(encode_texts(mn, <<q>>))[1]
        k == Min(k0, ntotal(st.index))
        hits == IndexSearch(st.index, xq, k)
    IN  IF Len(xq) # st.index.d \/ (k <= 0 /\ rejects)
        THEN [status |-> "AssertionError", results |-> <<>>]
        ELSE IF k <= 0
        THEN [status |-> "ok", results |-> <<>>]
        ELSE IF format_raises(hits, st.texts, st.metadata)
        THEN [status |-> "IndexError", results |-> <<>>]
        ELSE [status |-> "ok",
              results |-> format_results(hits, st.texts, st.metadata)]

\* A similarity_search that writes the files again before it returns.
similarity_search_resume_Persists(t, rejects) ==
    /\ task[t].pc = "search_await"
    /\ LET r == search(Store(index, texts, metadata), model_name,
                       task[t].query, task[t].k, rejects)
       IN  last' = [Returned(t, "similarity_search", r.status)
                       EXCEPT !.k = task[t].k, !.encodes = 1,
                              !.results = r.results]
    /\ task' = [task EXCEPT ![t] = IdleTask]
    /\ disk' = save_index(index, metadata, texts, model_name, disk, "ok")
    /\ UNCHANGED <<model_name, index, texts, metadata>>

similarity_search_resume(t, rejects) ==
    /\ task[t].pc = "search_await"
    /\ LET r == search(Store(index, texts, metadata), model_name,
                       task[t].query, task[t].k, rejects)
       IN  last' = [Returned(t, "similarity_search", r.status)
                       EXCEPT !.k = task[t].k, !.encodes = 1,
                              !.results = r.results]
    /\ task' = [task EXCEPT ![t] = IdleTask]
    /\ UNCHANGED <<model_name, index, texts, metadata, disk>>

\* ------------------------------------------------------------ get_stats
get_stats_call(t) ==
    /\ task[t].pc = "idle"
    /\ last' = [Returned(t, "get_stats", "ok") EXCEPT !.stats = get_stats]
    /\ UNCHANGED <<model_name, index, texts, metadata, disk, task>>

\* ---------------------------------------------------------------- clear
\* Where Path.unlink can raise.  "index_unlink": on the first path.
\* "meta_unlink": on the second, after the first was handled.
ClearOutcomes == {"ok", "index_unlink", "meta_unlink"}

\* clear without the unlink loop of lines 183-185.
clear_KeepsFiles(t, outcome) ==
    /\ task[t].pc = "idle"
    /\ outcome = "ok"
    /\ index' = IndexFlatIP(dimension)
    /\ metadata' = <<>>
    /\ texts' = <<>>
    /\ last' = Returned(t, "clear", "ok")
    /\ UNCHANGED <<model_name, task, disk>>

clear(t, outcome) ==
    /\ task[t].pc = "idle"
    /\ outcome = "index_unlink" => exists(disk.index)
    /\ outcome = "meta_unlink" => exists(disk.meta)
    /\ index' = IndexFlatIP(dimension)
    /\ metadata' = <<>>
    /\ texts' = <<>>
    /\ disk' = CASE outcome = "index_unlink" -> disk
                 [] outcome = "meta_unlink" ->
                        [disk EXCEPT !.index = NoIndexFile("missing")]
                 [] OTHER -> [index |-> NoIndexFile("missing"),
                              meta |-> NoMetaFile("missing")]
    /\ last' = [Returned(t, "clear", IF outcome = "ok" THEN "ok" ELSE "OSError")
                   EXCEPT !.io = IF outcome # "ok" THEN outcome
                                 ELSE IF exists(disk.index) \/ exists(disk.meta)
                                      THEN "unlinked" ELSE "none"]
    /\ UNCHANGED <<model_name, task>>

\* ------------------------------------------------------------- __init__
\* A new process constructs a VectorStore over the same two paths; the
\* coroutines of the old process are gone.
init(mn, outcome) ==
    /\ model_name' = mn
    /\ LET st == load_index(disk, mn, outcome)
       IN  /\ index' = st.index
           /\ texts' = st.texts
           /\ metadata' = st.metadata
    /\ task' = [t \in Tasks |-> IdleTask]
    /\ last' = [Returned("t1", "init", "ok") EXCEPT !.io =
                   IF load_raises(disk, outcome) THEN "load_failed"
                   ELSE IF exists(disk.index) /\ exists(disk.meta)
                        THEN "loaded" ELSE "none"]
    /\ UNCHANGED disk

\* ------------------------------------------------------------ str methods
\* A str is a sequence of one-character strings.
Whitespace == {" "}

Upper ==
    <<"A", "B", "C", "D", "E", "F", "G", "H", "I", "J", "K", "L", "M",
      "N", "O", "P", "Q", "R", "S", "T", "U", "V", "W", "X", "Y", "Z">>

Lower ==
    <<"a", "b", "c", "d", "e", "f", "g", "h", "i", "j", "k", "l", "m",
      "n", "o", "p", "q", "r", "s", "t", "u", "v", "w", "x", "y", "z">>

\* str.lower
lower(cs) ==
    [i \in 1..Len(cs) |->
        IF \E n \in 1..Len(Upper) : Upper[n] = cs[i]
        THEN Lower[CHOOSE n \in 1..Len(Upper) : Upper[n] = cs[i]]
        ELSE cs[i]]

RECURSIVE lstrip(_)
lstrip(cs) ==
    IF cs # <<>> /\ Head(cs) \in Whitespace THEN lstrip(Tail(cs)) ELSE cs

RECURSIVE rstrip(_)
rstrip(cs) ==
    IF cs # <<>> /\ cs[Len(cs)] \in Whitespace
    THEN rstrip(SubSeq(cs, 1, Len(cs) - 1)) ELSE cs

\* str.strip()
strip(cs) == rstrip(lstrip(cs))

\* str.split(sep) for a one-character sep: cut at every sep, empty pieces
\* kept.
RECURSIVE split(_, _)
split(cs, sep) ==
    IF \A i \in 1..Len(cs) : cs[i] # sep THEN <<cs>>
    ELSE LET p == CHOOSE i \in 1..Len(cs) :
                      cs[i] = sep /\ \A j \in 1..(i - 1) : cs[j] # sep
         IN  <<SubSeq(cs, 1, p - 1)>> \o split(SubSeq(cs, p + 1, Len(cs)), sep)

\* The first word of a str that starts with a non-whitespace character.
RECURSIVE first_word(_)
first_word(cs) ==
    IF cs = <<>> \/ Head(cs) \in Whitespace THEN <<>>
    ELSE <<Head(cs)>> \o first_word(Tail(cs))

\* str.split(): cut at runs of whitespace, no empty piece.
RECURSIVE split_ws(_)
split_ws(cs) ==
    LET rest == lstrip(cs)
        w == first_word(rest)
    IN  IF rest = <<>> THEN <<>>
        ELSE <<w>> \o split_ws(SubSeq(rest, Len(w) + 1, Len(rest)))

\* sep.join(parts)
RECURSIVE join(_, _)
join(parts, sep) ==
    IF parts = <<>> THEN <<>>
    ELSE IF Len(parts) = 1 THEN parts[1]
    ELSE parts[1] \o sep \o join(Tail(parts), sep)

\* set(seq)
set(seq) == {seq[i] : i \in 1..Len(seq)}

\* ----------------------------------------------------------- LLMService
\* context_chunks[:5]
ContextLimit == 5
\* relevant_sentences[:3]
SentenceLimit == 3
\* context_chunks[:3]
SourcesLimit == 3
\* best_chunk[:300]; scaled down with the texts of the model.
PreviewLen == 6

\* A retrieved chunk: the (text, metadata, score) tuple.
Chunk(text, md, score) == [text |-> text, metadata |-> md, score |-> score]

\* How the chat.completions.create call can end.  "answer": a completion
\* arrives.  "malformed": a response without choices or content, on which
\* line 87 raises.  The others: the exception the client raises.
BackendOutcomes == {"answer", "timeout", "auth", "rate_limit", "malformed"}

BackendFailures == BackendOutcomes \ {"answer"}

\* An answer and one failure, where the kind of failure is not at issue.
ApiBackendOutcomes == {"answer", "timeout"}

\* message.content of a completion.
Completion == <<" ", "o", "k", " ">>

\* What a generate_response call returned, kept as the parts the string is
\* built from, with the calls it made: prepared counts _prepare_context
\* runs, backend_calls the chat.completions.create calls, fallback_calls
\* the _generate_fallback_response runs.
\*   kind "no_context": the fixed message of line 35
\*   kind "backend":    body is the completion, stripped
\*   kind "error":      "Sorry, I encountered an error ...: " and detail
\*   kind "extract":    "Based on the available information:", body,
\*                      "Source: " source, "(Relevance: " score ")"
\*   kind "preview":    "I found information ... in " source ..., body,
\*                      "(Relevance: " score ")"
\*   kind "nothing":    the fixed message of line 129
\* kept is relevant_sentences[:3]; note is the set of sources named in the
\* "found across" sentence, empty when the sentence is absent, note_count
\* the number the sentence states and listing the sources in the order it
\* names them; context is what _prepare_context assembled.
NoReply ==
    [op |-> "none", query |-> <<>>, n |-> 0, strategy |-> "none",
     kind |-> "none", body |-> <<>>, kept |-> <<>>, source |-> "",
     score |-> 0, note |-> {}, note_count |-> 0, listing |-> <<>>,
     context |-> <<>>, detail |-> "", backend |-> "none",
     prepared |-> 0, backend_calls |-> 0, fallback_calls |-> 0,
     raised |-> FALSE]

\* The source names of the model, in one iteration order, and every order
\* the hashes of a process can give them.
DefaultSeed == <<"doc1", "doc2", "Unknown">>

Seeds ==
    {<<"doc1", "doc2", "Unknown">>, <<"doc1", "Unknown", "doc2">>,
     <<"doc2", "doc1", "Unknown">>, <<"doc2", "Unknown", "doc1">>,
     <<"Unknown", "doc1", "doc2">>, <<"Unknown", "doc2", "doc1">>}

\* list(set(...)) of source names: the members in hash order.
list_of_set(S) == SelectSeq(hashseed, LAMBDA x : x \in S)

\* A context assembly without the limit of five.
prepare_context_All(context_chunks) ==
    [i \in 1..Len(context_chunks) |->
        [label |-> i,
         source |-> get(context_chunks[i].metadata, "source", "Unknown"),
         chunk_id |-> get(context_chunks[i].metadata, "chunk_id", 0),
         text |-> context_chunks[i].text]]

\* Lines 47-54: one labelled part per chunk of the first five.
prepare_context(context_chunks) ==
    [i \in 1..Min(ContextLimit, Len(context_chunks)) |->
        [label |-> i,
         source |-> get(context_chunks[i].metadata, "source", "Unknown"),
         chunk_id |-> get(context_chunks[i].metadata, "chunk_id", 0),
         text |-> context_chunks[i].text]]

\* A backend strategy that issues the call a second time after a failure.
generate_openai_response_Retries(query, context, backend) ==
    IF backend = "answer"
    THEN [NoReply EXCEPT !.kind = "backend", !.body = strip(Completion),
                         !.backend_calls = 1]
    ELSE [NoReply EXCEPT !.kind = "error", !.detail = backend,
                         !.backend_calls = 2]

\* Lines 56-91: one chat.completions.create call inside try; any Exception
\* becomes the error string with str(e) in it.
generate_openai_response(query, context, backend) ==
    IF backend = "answer"
    THEN [NoReply EXCEPT !.kind = "backend", !.body = strip(Completion),
                         !.backend_calls = 1]
    ELSE [NoReply EXCEPT !.kind = "error", !.detail = backend,
                         !.backend_calls = 1]

\* Line 107: the stripped pieces between full stops, blank ones dropped.
RECURSIVE stripped_nonblank(_)
stripped_nonblank(pieces) ==
    IF pieces = <<>> THEN <<>>
    ELSE IF strip(Head(pieces)) # <<>>
    THEN <<strip(Head(pieces))>> \o stripped_nonblank(Tail(pieces))
    ELSE stripped_nonblank(Tail(pieces))

\* A filter loop that keeps every sentence.
RECURSIVE relevant_sentences_KeepsAll(_, _)
relevant_sentences_KeepsAll(sentences, query_words) ==
    IF sentences = <<>> THEN <<>>
    ELSE <<Head(sentences)>>
            \o relevant_sentences_KeepsAll(Tail(sentences), query_words)

\* Lines 110-116: the loop that keeps the sentences sharing a word with the
\* query, in order.
RECURSIVE relevant_sentences(_, _)
relevant_sentences(sentences, query_words) ==
    IF sentences = <<>> THEN <<>>
    ELSE LET sentence_words == set(split_ws(lower(Head(sentences))))
             rest == relevant_sentences(Tail(sentences), query_words)
         IN  IF query_words \cap sentence_words # {}
             THEN <<Head(sentences)>> \o rest
             ELSE rest

\* A note that looks at the sources of every chunk.
sources_note_AllChunks(context_chunks) ==
    LET unique_sources ==
            {get(context_chunks[i].metadata, "source", "Unknown") :
                i \in 1..Len(context_chunks)}
    IN  IF Len(context_chunks) > 1 /\ Cardinality(unique_sources) > 1
        THEN unique_sources ELSE {}

\* Lines 131-136: the set of sources of the first three chunks, when there
\* is more than one chunk and more than one source.
sources_note(context_chunks) ==
    LET first == SubSeq(context_chunks, 1,
                        Min(SourcesLimit, Len(context_chunks)))
        unique_sources ==
            {get(first[i].metadata, "source", "Unknown") : i \in 1..Len(first)}
    IN  IF Len(context_chunks) > 1 /\ Cardinality(unique_sources) > 1
        THEN unique_sources ELSE {}

\* Lines 93-138.
generate_fallback_response(query, context, context_chunks) ==
    LET query_lower == lower(query)
        best == context_chunks[1]
        sentences == stripped_nonblank(split(best.text, "."))
        query_words == set(split_ws(query_lower))
        relevant == relevant_sentences(sentences, query_words)
        kept == SubSeq(relevant, 1, Min(SentenceLimit, Len(relevant)))
        response ==
            IF context_chunks = <<>>
            THEN [NoReply EXCEPT !.kind = "nothing"]
            ELSE IF relevant # <<>>
            THEN [NoReply EXCEPT
                     !.kind = "extract",
                     !.kept = kept,
                     !.body = join(kept, <<".", " ">>),
                     !.source = get(best.metadata, "source",
                                    "Unknown document"),
                     !.score = best.score]
            ELSE [NoReply EXCEPT
                     !.kind = "preview",
                     !.body = IF Len(best.text) > PreviewLen
                              THEN SubSeq(best.text, 1, PreviewLen)
                                      \o <<".", ".", ".">>
                              ELSE best.text,
                     !.source = get(best.metadata, "source", "the document"),
                     !.score = best.score]
        unique_sources == sources_note(context_chunks)
    IN  [response EXCEPT !.note = unique_sources,
                         !.note_count = Cardinality(unique_sources),
                         !.listing = list_of_set(unique_sources),
                         !.fallback_calls = 1]

\* The strategy a call takes with self.use_openai = uo.
Strategy(uo) == IF uo THEN "backend" ELSE "fallback"

\* generate_response without the early return of lines 34-35.
generate_response_NoEmptyCheck(uo, query, context_chunks, backend) ==
    LET context == prepare_context(context_chunks)
        r == IF uo
             THEN generate_openai_response(query, context, backend)
             ELSE generate_fallback_response(query, context, context_chunks)
    IN  [r EXCEPT !.op = "generate_response", !.query = query,
                  !.n = Len(context_chunks), !.strategy = Strategy(uo),
                  !.backend = IF uo THEN backend ELSE "none",
                  !.context = context,
                  !.prepared = 1]

\* Lines 28-42, on an instance whose self.use_openai is uo.
generate_response(uo, query, context_chunks, backend) ==
    IF context_chunks = <<>>
    THEN [NoReply EXCEPT !.op = "generate_response", !.query = query,
                         !.kind = "no_context"]
    ELSE LET context == prepare_context(context_chunks)
             r == IF uo
                  THEN generate_openai_response(query, context, backend)
                  ELSE generate_fallback_response(query, context,
                                                  context_chunks)
         IN  [r EXCEPT !.op = "generate_response", !.query = query,
                       !.n = Len(context_chunks), !.strategy = Strategy(uo),
                       !.backend = IF uo THEN backend ELSE "none",
                       !.context = context,
                       !.prepared = 1]

\* What the steps of the LLMService leave alone.
store ==
    <<model_name, index, texts, metadata, disk, task, last, issued, hashseed>>

\* Lines 15-26: the constructor reads OPENAI_API_KEY once.
LLMService_init ==
    /\ use_openai' = environ
    /\ reply' = [NoReply EXCEPT !.op = "init"]
    /\ UNCHANGED <<environ, request>>
    /\ UNCHANGED store

\* The environment of the running process changes: the credential is set
\* or removed.
putenv(v) ==
    /\ environ # v
    /\ environ' = v
    /\ UNCHANGED <<use_openai, request, reply>>
    /\ UNCHANGED store

\* A generate_response call that looks the credential up again.
generate_response_call_Probes(query, context_chunks, backend) ==
    /\ reply' = generate_response(environ, query, context_chunks, backend)
    /\ UNCHANGED <<environ, use_openai, request>>
    /\ UNCHANGED store

\* One generate_response call from invocation to return; backend is how
\* the awaited completion call ends, if one is made.
generate_response_call(query, context_chunks, backend) ==
    /\ reply' = generate_response(use_openai, query, context_chunks, backend)
    /\ UNCHANGED <<environ, use_openai, request>>
    /\ UNCHANGED store

\* ------------------------------------------------- the application state
IdleHandler ==
    [pc |-> "idle", doc_id |-> "", filename |-> "", chunks |-> <<>>,
     query |-> "", top_k |-> 0]

\* An HTTP response: status and detail of an HTTPException, or the body
\* of a 200.  message "no_relevant" is the fixed string of line 161;
\* answer is what generate_response returned; ntotal is the size of the
\* index when the request arrived; encodes and backend_calls count the
\* embedding calls and completion calls the request made.
NoHttp ==
    [op |-> "none", status |-> 0, detail |-> "", doc_id |-> "",
     message |-> "", answer |-> NoReply, sources |-> <<>>, ntotal |-> 0,
     encodes |-> 0, backend_calls |-> 0]

\* Lines 49-50, 72-73: empty tables, an upload directory without files.
ApiInit ==
    /\ documents_db = {}
    /\ chunks_db = <<>>
    /\ uploads = {}
    /\ uuids = {}
    /\ handler = IdleHandler
    /\ http = NoHttp

\* No request fixed at the start.
NoRequest == [query |-> <<>>, context_chunks |-> <<>>]

\* The application's module level: VectorStore() and LLMService() are
\* constructed at import, here in an environment without the credential
\* (a later construction may find it set).
Init ==
    /\ StoreInit
    /\ environ = FALSE
    /\ use_openai = environ
    /\ hashseed = DefaultSeed
    /\ request = NoRequest
    /\ reply = [NoReply EXCEPT !.op = "init"]
    /\ ApiInit

\* What the operations of the VectorStore leave alone.
llm == <<environ, use_openai, request, reply>>

api == <<documents_db, chunks_db, uploads, uuids, handler, http>>

others == <<issued, hashseed, llm, api>>

\* One caller at a time, every way the file operations can fail, and
\* process restarts.
Callers == {"t1"}

Next ==
    \/ \E t \in Callers, b \in Batches :
          add_documents_call(t, b.texts, b.metadatas) /\ UNCHANGED others
    \/ \E t \in Callers, o \in SaveOutcomes :
          add_documents_resume(t, o) /\ UNCHANGED others
    \/ \E t \in Callers, q \in Queries, k \in Ks :
          similarity_search_call(t, q, k) /\ UNCHANGED others
    \/ \E t \in Callers, r \in BOOLEAN :
          similarity_search_resume(t, r) /\ UNCHANGED others
    \/ \E t \in Callers : get_stats_call(t) /\ UNCHANGED others
    \/ \E t \in Callers, o \in ClearOutcomes : clear(t, o) /\ UNCHANGED others
    \/ \E mn \in AppModels, o \in LoadOutcomes :
          init(mn, o) /\ UNCHANGED others

Spec == Init /\ [][Next]_vars

\* Concurrent callers on one event loop: calls of different coroutines
\* interleave at the await of the embedding call.
ConcSaveOutcomes == {"ok", "meta_open"}

NextConc ==
    \/ \E t \in Tasks, b \in Batches :
          add_documents_call(t, b.texts, b.metadatas) /\ UNCHANGED others
    \/ \E t \in Tasks, o \in ConcSaveOutcomes :
          add_documents_resume(t, o) /\ UNCHANGED others
    \/ \E t \in Tasks, q \in Queries, k \in Ks :
          similarity_search_call(t, q, k) /\ UNCHANGED others
    \/ \E t \in Tasks, r \in BOOLEAN :
          similarity_search_resume(t, r) /\ UNCHANGED others
    \/ \E t \in Tasks : get_stats_call(t) /\ UNCHANGED others
    \/ \E t \in Tasks, o \in ClearOutcomes : clear(t, o) /\ UNCHANGED others
    \/ \E mn \in AppModels : init(mn, "ok") /\ UNCHANGED others

SpecConc == Init /\ [][NextConc]_vars

\* The lifetime of one VectorStore, with the offsets it hands out recorded.
\* index.add appends: the new entries take offsets ntotal .. ntotal' - 1.
record_offsets ==
    issued' = [o \in DOMAIN issued |->
                 IF ntotal(index) <= o /\ o < ntotal(index')
                 THEN Min(issued[o] + 1, 2) ELSE issued[o]]

NextOffsets ==
    \/ \E t \in Callers, b \in Batches :
          add_documents_call(t, b.texts, b.metadatas)
             /\ UNCHANGED <<issued, hashseed, llm, api>>
    \/ \E t \in Callers, o \in SaveOutcomes :
          add_documents_resume(t, o) /\ record_offsets
             /\ UNCHANGED <<hashseed, llm, api>>
    \/ \E t \in Callers, o \in ClearOutcomes :
          clear(t, o) /\ UNCHANGED <<issued, hashseed, llm, api>>

SpecOffsets == Init /\ [][NextOffsets]_vars

\* ------------------------------------- the store under several encoders
\* VectorStore(model_name=...): the default, one of the same width, one
\* that is wider.
AllModels == Models \cup {WideModel}

\* One caller, writes and loads that succeed, restarts under any model.
NextModels ==
    \/ \E b \in Batches :
          add_documents_call("t1", b.texts, b.metadatas) /\ UNCHANGED others
    \/ add_documents_resume("t1", "ok") /\ UNCHANGED others
    \/ \E q \in Queries, k \in Ks :
          similarity_search_call("t1", q, k) /\ UNCHANGED others
    \/ \E r \in BOOLEAN :
          similarity_search_resume("t1", r) /\ UNCHANGED others
    \/ get_stats_call("t1") /\ UNCHANGED others
    \/ \E mn \in AllModels : init(mn, "ok") /\ UNCHANGED others

SpecModels == Init /\ [][NextModels]_vars

\* ------------------------------------------------- LLMService, its calls
MetaNoSource == [doc_id |-> "d1", chunk_id |-> 0]

CatText == <<"C", "a", "t", "s", " ", "p", "u", "r", "r", ".">>

DogText == <<"D", "o", "g", "s", " ", "b", "a", "r", "k", ".">>

LLMQueries ==
    {<<"c", "a", "t", "s">>, <<"d", "o", "g", "s">>,
     <<"b", "i", "r", "d", "s">>, <<>>}

LLMChunkLists ==
    {<<>>,
     <<Chunk(CatText, Meta1, 1)>>,
     <<Chunk(CatText, MetaNoSource, 1)>>,
     <<Chunk(CatText, Meta1, 1), Chunk(DogText, Meta2, 0)>>,
     <<Chunk(DogText, Meta2, 1), Chunk(CatText, Meta2, 1)>>}

NextLLM ==
    \/ LLMService_init /\ UNCHANGED api
    \/ \E v \in BOOLEAN : putenv(v) /\ UNCHANGED api
    \/ \E q \in LLMQueries, cs \in LLMChunkLists, b \in BackendOutcomes :
          generate_response_call(q, cs, b) /\ UNCHANGED api

SpecLLM == Init /\ [][NextLLM]_vars

\* ------------------------------------------- the fallback, as a function
\* Most full-stop-separated pieces in a chunk text.
MaxSegments == 4

RECURSIVE SeqsUpTo(_, _)
SeqsUpTo(S, n) ==
    IF n = 0 THEN {<<>>}
    ELSE LET shorter == SeqsUpTo(S, n - 1)
         IN  shorter \cup {Append(q, x) : q \in shorter, x \in S}

\* The pieces chunk texts are made of: empty, a word, words with capitals
\* and blanks around them, a word with punctuation, a blank.
Segments ==
    {<<>>, <<"a">>, <<" ", "A", " ", "b">>, <<"c", "?">>, <<" ">>}

ScenarioCText ==
    <<"T", "h", "e", " ", "s", "k", "y", " ", "i", "s", " ", "b", "l", "u",
      "e", ".", " ", "W", "a", "t", "e", "r", " ", "b", "o", "i", "l", "s",
      " ", "a", "t", " ", "1", "0", "0", " ", "d", "e", "g", "r", "e", "e",
      "s", ".", " ", "I", "c", "e", " ", "m", "e", "l", "t", "s", " ", "a",
      "t", " ", "0", " ", "d", "e", "g", "r", "e", "e", "s", ".">>

ScenarioCQuery ==
    <<"A", "t", " ", "w", "h", "a", "t", " ", "t", "e", "m", "p", "e", "r",
      "a", "t", "u", "r", "e", " ", "d", "o", "e", "s", " ", "i", "c", "e",
      " ", "m", "e", "l", "t", "?">>

\* Six sentences, five of them with the word a.
LongText ==
    <<"a", ".", " ", "c", "?", ".", " ", "A", " ", "b", ".", "a", ".",
      " ", "a", " ", "b", " ", ".", "a">>

FallbackTexts ==
    {join(ss, <<".">>) : ss \in SeqsUpTo(Segments, MaxSegments)}
        \cup {ScenarioCText, LongText}

FallbackQueries ==
    {<<"a">>, <<"B", " ", " ", "c", "?">>, <<"c">>, <<>>, ScenarioCQuery}

\* The top chunk alone, or followed by a second chunk that shares a word
\* with every query.
FallbackChunkLists ==
    {<<Chunk(text, Meta1, 1)>> : text \in FallbackTexts}
        \cup {<<Chunk(text, MetaNoSource, 1),
                Chunk(<<"a", " ", "b", " ", "c", " ", "c", "?", " ",
                        "a", "t">>, Meta2, 1)>> : text \in FallbackTexts}

Requests ==
    [query : FallbackQueries, context_chunks : FallbackChunkLists]

\* An LLMService constructed without the credential, about to be called
\* with one of the requests.
InitFallback ==
    /\ StoreInit
    /\ environ = FALSE
    /\ use_openai = FALSE
    /\ hashseed = DefaultSeed
    /\ request \in Requests
    /\ reply = [NoReply EXCEPT !.op = "init"]
    /\ ApiInit

NextFallback ==
    /\ generate_response_call(request.query, request.context_chunks,
                              "answer")
    /\ UNCHANGED api

SpecFallback == InitFallback /\ [][NextFallback]_vars

\* ------------------------------- context assembly and the sources note
\* Most results handed to generate_response.
MaxChunks == 6

Meta3 == [doc_id |-> "d2", chunk_id |-> 1, source |-> "doc2"]

\* A metadata dict without source and without chunk_id.
MetaBare == [doc_id |-> "d1"]

SynthChunks ==
    {Chunk(CatText, Meta1, 1), Chunk(DogText, Meta3, 1),
     Chunk(CatText, MetaBare, 0)}

SynthRequests ==
    [query : {<<"c", "a", "t", "s">>},
     context_chunks : SeqsUpTo(SynthChunks, MaxChunks)]

\* A process with or without the credential and with some hash order,
\* about to be called with one of the requests.
InitSynth ==
    /\ StoreInit
    /\ environ \in BOOLEAN
    /\ use_openai = environ
    /\ hashseed \in Seeds
    /\ request \in SynthRequests
    /\ reply = [NoReply EXCEPT !.op = "init"]
    /\ ApiInit

NextSynth ==
    \E b \in ApiBackendOutcomes :
        /\ generate_response_call(request.query, request.context_chunks, b)
        /\ UNCHANGED api

SpecSynth == InitSynth /\ [][NextSynth]_vars

\* ------------------------------------------------------ the HTTP handlers
\* uuid.uuid4(): ids that do not repeat.
DocIds == {"d1", "d2"}

\* Uploaded files: name, whether the extension is an allowed one, and
\* the chunk texts process_document makes of it (none: no text content,
\* process_document raises).
File(name, allowed, chunks) ==
    [filename |-> name, allowed |-> allowed, chunks |-> chunks]

Files ==
    {File("doc1", TRUE, <<"cat">>), File("doc2", TRUE, <<"dog">>),
     File("doc1", TRUE, <<"cat", "dog">>), File("doc3", FALSE, <<>>),
     File("doc4", TRUE, <<>>)}

\* top_k: Optional[int] = 5
TopKs == {1, DefaultK}

\* The characters of the texts the store holds.
Chars(text) ==
    IF text = "cat" THEN <<"c", "a", "t">> ELSE <<"d", "o", "g">>

\* chunk_text[:200]
SourcePreviewLen == 200

\* Lines 109-114, without file_path (a function of doc_id and filename).
metadatas_of(doc_id, filename, chunks) ==
    [i \in 1..Len(chunks) |->
        [doc_id |-> doc_id, chunk_id |-> i - 1, source |-> filename]]

\* Lines 129-132: the chunk merged with its metadata.
rows_of(doc_id, filename, chunks) ==
    [i \in 1..Len(chunks) |->
        [content |-> chunks[i], chunk_id |-> i - 1, doc_id |-> doc_id,
         source |-> filename]]

storevars == <<model_name, index, texts, metadata, disk, task, last>>

\* Lines 79-116: the extension check; then a new id, the file saved,
\* process_document, and add_documents up to its await.
upload_document_call(f) ==
    /\ handler.pc = "idle"
    /\ IF ~f.allowed
       THEN /\ http' = [NoHttp EXCEPT !.op = "upload_document",
                                      !.status = 400,
                                      !.detail = "Unsupported file format"]
            /\ UNCHANGED <<uuids, uploads, handler>>
            /\ UNCHANGED storevars
       ELSE \E id \in DocIds \ uuids :
            /\ uuids' = uuids \cup {id}
            /\ uploads' = uploads \cup {id}
            /\ IF f.chunks = <<>>
               THEN /\ http' = [NoHttp EXCEPT !.op = "upload_document",
                                              !.status = 500,
                                              !.doc_id = id,
                                              !.detail = "ValueError"]
                    /\ UNCHANGED handler
                    /\ UNCHANGED storevars
               ELSE /\ add_documents_call("t1", f.chunks,
                           metadatas_of(id, f.filename, f.chunks))
                    /\ handler' = [IdleHandler EXCEPT
                                      !.pc = "upload_await", !.doc_id = id,
                                      !.filename = f.filename,
                                      !.chunks = f.chunks]
                    /\ UNCHANGED http
    /\ UNCHANGED <<documents_db, chunks_db, issued, hashseed, llm>>

\* Lines 116-143: add_documents returns; the two tables are filled.
upload_document_resume(outcome) ==
    /\ handler.pc = "upload_await"
    /\ add_documents_resume("t1", outcome)
    /\ IF last'.status = "ok"
       THEN /\ documents_db' = documents_db \cup
                   {[id |-> handler.doc_id, filename |-> handler.filename,
                     chunk_count |-> Len(handler.chunks)]}
            /\ chunks_db' = chunks_db \o
                   rows_of(handler.doc_id, handler.filename, handler.chunks)
            /\ http' = [NoHttp EXCEPT !.op = "upload_document",
                                      !.status = 200,
                                      !.doc_id = handler.doc_id,
                                      !.encodes = 1]
       ELSE /\ http' = [NoHttp EXCEPT !.op = "upload_document",
                                      !.status = 500,
                                      !.doc_id = handler.doc_id,
                                      !.detail = last'.status,
                                      !.encodes = 1]
            /\ UNCHANGED <<documents_db, chunks_db>>
    /\ handler' = IdleHandler
    /\ UNCHANGED <<uploads, uuids, issued, hashseed, llm>>

\* Lines 173-181.
sources_of(relevant_chunks) ==
    [i \in 1..Len(relevant_chunks) |->
        [source |-> get(relevant_chunks[i].metadata, "source", "Unknown"),
         chunk_id |-> get(relevant_chunks[i].metadata, "chunk_id", 0),
         relevance_score |-> relevant_chunks[i].score,
         content_preview |->
            LET cs == Chars(relevant_chunks[i].text)
            IN  IF Len(cs) > SourcePreviewLen
                THEN SubSeq(cs, 1, SourcePreviewLen) \o <<".", ".", ".">>
                ELSE cs]]

\* The (text, metadata, score) tuples handed to generate_response.
chunks_of(relevant_chunks) ==
    [i \in 1..Len(relevant_chunks) |->
        Chunk(Chars(relevant_chunks[i].text), relevant_chunks[i].metadata,
              relevant_chunks[i].score)]

\* Lines 159-191 once similarity_search has returned r with status st,
\* having made e embedding calls.
query_response(st, r, e, q, backend) ==
    LET answer == generate_response(use_openai, Chars(q), chunks_of(r),
                                    backend)
        base == [NoHttp EXCEPT !.op = "query_documents",
                               !.ntotal = ntotal(index), !.encodes = e]
    IN  IF st # "ok"
        THEN [base EXCEPT !.status = 500, !.detail = st]
        ELSE IF r = <<>>
        THEN [base EXCEPT !.status = 200, !.message = "no_relevant"]
        ELSE [base EXCEPT !.status = 200, !.answer = answer,
                          !.sources = sources_of(r),
                          !.backend_calls = answer.backend_calls]

\* Lines 145-157: no chunk in chunks_db is a 400; else similarity_search
\* up to its await (or to its return, on an empty index).
query_documents_call(q, top_k) ==
    /\ handler.pc = "idle"
    /\ IF chunks_db = <<>>
       THEN /\ http' = [NoHttp EXCEPT !.op = "query_documents",
                                      !.status = 400,
                                      !.detail = "No documents uploaded yet",
                                      !.ntotal = ntotal(index)]
            /\ UNCHANGED handler
            /\ UNCHANGED storevars
       ELSE /\ similarity_search_call("t1", q, top_k)
            /\ IF task'["t1"].pc = "search_await"
               THEN /\ handler' = [IdleHandler EXCEPT
                                      !.pc = "query_await", !.query = q,
                                      !.top_k = top_k]
                    /\ UNCHANGED http
               ELSE /\ http' = query_response(last'.status, last'.results,
                                              0, q, "answer")
                    /\ UNCHANGED handler
    /\ UNCHANGED <<documents_db, chunks_db, uploads, uuids, issued,
                   hashseed, llm>>

\* Lines 154-191: similarity_search returns; the answer is generated
\* (backend: how the completion call ends, when one is made).
query_documents_resume(rejects, backend) ==
    /\ handler.pc = "query_await"
    /\ similarity_search_resume("t1", rejects)
    /\ http' = query_response(last'.status, last'.results, 1,
                              handler.query, backend)
    /\ handler' = IdleHandler
    /\ reply' = IF last'.status = "ok" /\ last'.results # <<>>
                THEN http'.answer ELSE reply
    /\ UNCHANGED <<documents_db, chunks_db, uploads, uuids, issued,
                   hashseed, environ, use_openai, request>>

\* Where delete_document's file removal can end.
UnlinkOutcomes == {"ok", "unlink"}

\* Lines 198-227: the tables lose the document and its chunks, the file
\* is removed; the vector store is not touched.
delete_document(doc_id, outcome) ==
    /\ handler.pc = "idle"
    /\ IF \A d \in documents_db : d.id # doc_id
       THEN /\ http' = [NoHttp EXCEPT !.op = "delete_document",
                                      !.status = 404, !.doc_id = doc_id,
                                      !.detail = "Document not found"]
            /\ UNCHANGED <<documents_db, chunks_db, uploads>>
       ELSE /\ chunks_db' = SelectSeq(chunks_db,
                                      LAMBDA c : c.doc_id # doc_id)
            /\ documents_db' = {d \in documents_db : d.id # doc_id}
            /\ uploads' = IF outcome = "ok" THEN uploads \ {doc_id}
                          ELSE uploads
            /\ http' = [NoHttp EXCEPT
                           !.op = "delete_document", !.doc_id = doc_id,
                           !.status = IF outcome = "ok" THEN 200 ELSE 500,
                           !.detail = IF outcome = "ok" THEN ""
                                      ELSE "OSError"]
    /\ UNCHANGED <<uuids, handler, issued, hashseed, llm>>
    /\ UNCHANGED storevars

\* The server process starts again: the services are constructed anew,
\* the tables are empty, the files are where they were.
restart(outcome) ==
    /\ init(DefaultModel, outcome)
    /\ use_openai' = environ
    /\ reply' = [NoReply EXCEPT !.op = "init"]
    /\ documents_db' = {}
    /\ chunks_db' = <<>>
    /\ handler' = IdleHandler
    /\ http' = NoHttp
    /\ UNCHANGED <<uploads, uuids, issued, hashseed, environ, request>>

\* One request at a time; persistence writes and loads that succeed.
NextApi ==
    \/ \E f \in Files : upload_document_call(f)
    \/ upload_document_resume("ok")
    \/ \E q \in Queries, k \in TopKs : query_documents_call(q, k)
    \/ \E r \in BOOLEAN, b \in ApiBackendOutcomes :
          query_documents_resume(r, b)
    \/ \E d \in DocIds, o \in UnlinkOutcomes : delete_document(d, o)
    \/ restart("ok")
    \/ \E v \in BOOLEAN : putenv(v) /\ UNCHANGED api

SpecApi == Init /\ [][NextApi]_vars

\* ================================================================ claims
FailedIO == {"index_open", "index_write", "meta_open", "meta_write",
             "load_failed", "index_unlink", "meta_unlink"}

\* A step in which task t returns from the await of add_documents.
AddReturns(t) ==
    /\ task[t].pc = "add_await" /\ task'[t].pc = "idle"
    /\ last'.op = "add_documents"

\* A step in which add_documents returns or raises before its await.
AddReturnsAtOnce == last'.op = "add_documents" /\ UNCHANGED task

\* C1: in every reachable state the index holds as many vectors as there
\* are texts, and as many texts as metadata entries.
C1_EqualLengths ==
    /\ ntotal(index) = Len(texts)
    /\ Len(texts) = Len(metadata)

\* C2: an add_documents call with equally long arguments that completes
\* grows total_vectors, total_texts and total_metadata by exactly
\* len(texts), whatever other calls are suspended meanwhile.
C2_AddGrowsByBatchLength ==
    [][/\ \A t \in Tasks :
            (AddReturns(t) /\ last'.status = "ok")
            => /\ get_stats'.total_vectors
                    = get_stats.total_vectors + Len(task[t].texts)
               /\ get_stats'.total_texts
                    = get_stats.total_texts + Len(task[t].texts)
               /\ get_stats'.total_metadata
                    = get_stats.total_metadata + Len(task[t].texts)
       /\ (AddReturnsAtOnce /\ last'.status = "ok" /\ last'.n = last'.m)
            => /\ last'.n = 0
               /\ get_stats' = get_stats]_vars

C2_Witness ==
    /\ last.op = "add_documents" /\ last.status = "ok" /\ last.n = 1
    /\ get_stats.total_vectors = 1 /\ get_stats.total_metadata = 1
    /\ \E u \in Tasks : task[u].pc = "add_await"

\* C3: add_documents with arguments of different lengths always raises
\* the validation error, never reaches the embedding call or a persistence
\* write, and leaves the index, texts, metadata and both files unchanged.
C3_MismatchRejected ==
    /\ [](/\ \A t \in Tasks :
                task[t].pc = "add_await"
                => Len(task[t].texts) = Len(task[t].metadatas)
          /\ (last.op = "add_documents" /\ last.n # last.m)
                => /\ last.status = "ValueError"
                   /\ last.encodes = 0
                   /\ last.saves = 0)
    /\ [][(AddReturnsAtOnce /\ last'.status = "ValueError")
            => /\ UNCHANGED <<index, texts, metadata, disk>>
               /\ get_stats' = get_stats]_vars

C3_Witness ==
    /\ last.op = "add_documents" /\ last.status = "ValueError"
    /\ last.n = 2 /\ last.m = 1
    /\ get_stats.total_vectors = 1
    /\ disk.meta.state = "ok"

\* C4: similarity_search on an empty index returns the empty sequence at
\* once, without an embedding call.
C4_EmptyIndexSearch ==
    /\ [][/\ \A t \in Tasks :
               (task[t].pc = "idle" /\ ntotal(index) = 0)
               => task'[t].pc # "search_await"
          /\ (last'.op = "similarity_search" /\ UNCHANGED task
                /\ ntotal(index) = 0)
               => /\ last'.status = "ok"
                  /\ last'.results = <<>>
                  /\ last'.encodes = 0]_vars
    /\ []((last.op = "similarity_search" /\ last.encodes = 0)
            => (last.status = "ok" /\ last.results = <<>>))

C4_Witness ==
    /\ last.op = "similarity_search" /\ last.status = "ok"
    /\ last.results = <<>> /\ last.encodes = 0 /\ last.k = DefaultK
    /\ ntotal(index) = 0

\* C5: similarity_search returns at most min(k, total_vectors) results and
\* their scores never increase from one result to the next.
C5_BoundedAndSorted ==
    (last.op = "similarity_search" /\ last.status = "ok")
    => /\ Len(last.results) <= Min(last.k, get_stats.total_vectors)
       /\ \A i, j \in 1..Len(last.results) :
             i < j => last.results[i].score >= last.results[j].score

C5_Witness ==
    /\ last.op = "similarity_search" /\ last.status = "ok"
    /\ last.k = DefaultK
    /\ texts = <<"dog", "cat">>
    /\ Len(last.results) = 2
    /\ last.results[1].text = "cat"
    /\ last.results[1].score > last.results[2].score

\* C6: right after a persistence write that succeeded, a fresh instance
\* over the same two files reports the same statistics and answers every
\* query with the same results (texts, metadata, order, scores).
C6_RoundTrip ==
    (last.op = "add_documents" /\ last.io = "ok")
    => LET fresh == load_index(disk, model_name, "ok")
           mine == Store(index, texts, metadata)
       IN  /\ stats_of(fresh, model_name) = get_stats
           /\ \A q \in Texts, k \in Ks, r \in BOOLEAN :
                 search(fresh, model_name, q, k, r)
                    = search(mine, model_name, q, k, r)

C6_Witness ==
    /\ last.op = "add_documents" /\ last.io = "ok"
    /\ texts = <<"dog", "cat">>
    /\ Len(search(load_index(disk, model_name, "ok"), model_name,
                  "cat", DefaultK, TRUE).results) = 2

\* C7: construction never raises, and when either file is missing or does
\* not parse (or cannot be read) the store starts with an empty index, no
\* texts and no metadata.
C7_LoadNeverRaises ==
    last.op = "init"
    => /\ last.status = "ok"
       /\ (\/ ~exists(disk.index) \/ ~exists(disk.meta)
           \/ disk.index.state = "corrupt" \/ disk.meta.state = "corrupt"
           \/ last.io = "load_failed")
          => /\ index = IndexFlatIP(dimension)
             /\ texts = <<>>
             /\ metadata = <<>>

C7_Witness ==
    /\ last.op = "init" /\ last.status = "ok"
    /\ disk.index.state = "ok" /\ disk.index.ntotal = 2
    /\ disk.meta.state = "corrupt"
    /\ get_stats.total_vectors = 0

\* C8: when the persistence write of add_documents fails, the call still
\* returns normally and the entries it appended stay in the index, the
\* texts and the metadata.
C8_SaveFailureKeepsEntries ==
    [][\A t \in Tasks :
          (AddReturns(t) /\ last'.io \in FailedIO)
          => /\ last'.status = "ok"
             /\ texts' = texts \o task[t].texts
             /\ metadata' = metadata \o task[t].metadatas
             /\ ntotal(index') = ntotal(index) + Len(task[t].texts)
             /\ SubSeq(index'.xb, 1, ntotal(index)) = index.xb]_vars

C8_Witness ==
    /\ last.op = "add_documents" /\ last.status = "ok"
    /\ last.io = "index_write"
    /\ disk.index.state = "corrupt"
    /\ texts = <<"cat", "dog">>
    /\ get_stats.total_vectors = 2

\* C9: no failure of a file operation, in construction, add_documents or
\* clear, reaches the caller.
C9_IOFailuresAbsorbed == last.io \in FailedIO => last.status = "ok"

\* C10: when clear returns, the store holds no vector, text or metadata,
\* neither file exists, and a fresh instance over the same paths is empty.
C10_ClearEmptiesStore ==
    (last.op = "clear" /\ last.status = "ok")
    => /\ get_stats.total_vectors = 0
       /\ texts = <<>>
       /\ metadata = <<>>
       /\ ~exists(disk.index)
       /\ ~exists(disk.meta)
       /\ \A mn \in Models, o \in LoadOutcomes :
             load_index(disk, mn, o) = EmptyStore

C10_Witness ==
    /\ last.op = "clear" /\ last.status = "ok" /\ last.io = "unlinked"
    /\ \A t \in Tasks : task[t].pc = "idle"
    /\ get_stats.total_vectors = 0

\* C11: no two entries created by add_documents during the lifetime of a
\* VectorStore are placed at the same offset, also across a clear.
C11_OffsetsNeverReused == \A o \in DOMAIN issued : issued[o] <= 1

\* C12: while an add_documents call is between its invocation and its
\* return, no other add_documents or similarity_search call is.
C12_AddExclusive ==
    \A t, u \in Tasks :
        (t # u /\ task[t].pc = "add_await") => task[u].pc = "idle"

\* C13: whatever way a persistence write ends, a load over the two files
\* yields the store as persisted before the write or the store as it is
\* after the write, nothing else.
C13_AtomicPersistence ==
    [][\A t \in Tasks :
          (AddReturns(t) /\ last'.saves = 1)
          => load_index(disk', model_name, "ok")
                \in {load_index(disk, model_name, "ok"),
                     Store(index', texts', metadata')}]_vars

Awaiting(t) == task[t].pc \in {"add_await", "search_await"}

SearchReturns(u) ==
    /\ task[u].pc = "search_await" /\ task'[u].pc = "idle"
    /\ last'.op = "similarity_search"

\* C14: while a call waits for its embeddings, another task can start a
\* similarity_search; and a similarity_search that got its own embedding
\* returns in a step that leaves every other call waiting where it was.
C14_SearchNotBlocked ==
    /\ [](\A t, u \in Tasks :
            (t # u /\ Awaiting(t) /\ task[u].pc = "idle") =>
                \A q \in Queries, k \in Ks :
                    ENABLED (similarity_search_call(u, q, k)
                                /\ task'[t] = task[t]))
    /\ [][\A u \in Tasks :
            SearchReturns(u) =>
                /\ last'.encodes = 1
                /\ \A t \in Tasks \ {u} : task'[t] = task[t]]_vars

\* A similarity_search has returned hits from its own embedding while an
\* add_documents call is still waiting for its embeddings.
C14_Witness ==
    /\ last.op = "similarity_search" /\ last.status = "ok"
    /\ last.encodes = 1 /\ last.results # <<>>
    /\ \E t \in Tasks : task[t].pc = "add_await"

Called == reply.op = "generate_response"

\* C17: a generate_response call with an empty result list returns the
\* fixed message and has run neither context assembly nor the backend
\* strategy nor the fallback strategy, whichever strategy is configured.
C17_EmptyResultsFixedMessage ==
    (Called /\ reply.n = 0) =>
        /\ reply.kind = "no_context"
        /\ reply.prepared = 0
        /\ reply.backend_calls = 0
        /\ reply.fallback_calls = 0
        /\ ~reply.raised

\* An instance configured for the backend was called with no result.
C17_Witness ==
    Called /\ reply.n = 0 /\ use_openai /\ reply.kind = "no_context"

\* C18: when the backend call fails, generate_response returns (does not
\* raise) the error string with the failure's detail in it, and exactly one
\* generation call was issued.
C18_BackendFailureReported ==
    (Called /\ reply.backend \in BackendFailures) =>
        /\ ~reply.raised
        /\ reply.backend_calls = 1
        /\ reply.kind = "error"
        /\ reply.detail = reply.backend

C18_Witness ==
    /\ Called /\ reply.strategy = "backend"
    /\ reply.backend = "rate_limit" /\ reply.kind = "error"

\* C19: every generate_response call with results takes the strategy the
\* instance was constructed with, and only a construction sets that
\* strategy, whatever happens to the credential in the environment.
C19_StrategyFixedAtConstruction ==
    /\ []((Called /\ reply.n > 0) => reply.strategy = Strategy(use_openai))
    /\ [][use_openai' # use_openai => reply'.op = "init"]_vars

\* The credential appeared after construction and the call still took the
\* fallback.
C19_Witness ==
    /\ Called /\ reply.n > 0
    /\ environ /\ ~use_openai /\ reply.strategy = "fallback"

\* The top chunk's text, its full stops, and the pieces between them.
TopText == request.context_chunks[1].text

Stops == {i \in 1..Len(TopText) : TopText[i] = "."}

\* The piece that starts after position b (0 or a full stop).
PieceAfter(b) ==
    LET e == CHOOSE d \in (Stops \cup {Len(TopText) + 1}) :
                 d > b /\ \A x \in Stops : x > b => d <= x
    IN  SubSeq(TopText, b + 1, e - 1)

\* cs without the blanks at its two ends.
Trimmed(cs) ==
    LET solid == {i \in 1..Len(cs) : cs[i] \notin Whitespace}
    IN  IF solid = {} THEN <<>>
        ELSE SubSeq(cs, CHOOSE i \in solid : \A j \in solid : i <= j,
                        CHOOSE i \in solid : \A j \in solid : i >= j)

\* The lowercase maximal blank-free runs of cs.
TokenSet(cs) ==
    {lower(SubSeq(cs, i, j)) : <<i, j>> \in
        {ij \in (1..Len(cs)) \X (1..Len(cs)) :
            /\ ij[1] <= ij[2]
            /\ \A x \in ij[1]..ij[2] : cs[x] \notin Whitespace
            /\ ij[1] = 1 \/ cs[ij[1] - 1] \in Whitespace
            /\ ij[2] = Len(cs) \/ cs[ij[2] + 1] \in Whitespace}}

\* Where the segments start that share a token with the query.
MatchStarts ==
    {b \in {0} \cup Stops :
        TokenSet(PieceAfter(b)) \cap TokenSet(request.query) # {}}

NthMatch(n) ==
    CHOOSE b \in MatchStarts :
        Cardinality({x \in MatchStarts : x < b}) = n - 1

ExpectedKept ==
    [n \in 1..Min(3, Cardinality(MatchStarts)) |->
        Trimmed(PieceAfter(NthMatch(n)))]

RECURSIVE OffsetOf(_, _)
OffsetOf(parts, n) ==
    IF n = 1 THEN 0 ELSE OffsetOf(parts, n - 1) + Len(parts[n - 1]) + 2

\* text is the parts in order with ". " between neighbours.
JoinedByStop(text, parts) ==
    /\ parts # <<>>
    /\ Len(text) = OffsetOf(parts, Len(parts)) + Len(parts[Len(parts)])
    /\ \A n \in 1..Len(parts) :
          /\ SubSeq(text, OffsetOf(parts, n) + 1,
                    OffsetOf(parts, n) + Len(parts[n])) = parts[n]
          /\ n < Len(parts) =>
                /\ text[OffsetOf(parts, n) + Len(parts[n]) + 1] = "."
                /\ text[OffsetOf(parts, n) + Len(parts[n]) + 2] = " "

ScenarioCExtract ==
    <<"W", "a", "t", "e", "r", " ", "b", "o", "i", "l", "s", " ", "a", "t",
      " ", "1", "0", "0", " ", "d", "e", "g", "r", "e", "e", "s", ".", " ",
      "I", "c", "e", " ", "m", "e", "l", "t", "s", " ", "a", "t", " ", "0",
      " ", "d", "e", "g", "r", "e", "e", "s">>

\* C20: the fallback extracts from the first result's text only: the
\* extracted part is the first 3, in order, of the segments that share a
\* lowercase whitespace-delimited token with the query, joined with ". ";
\* no segment without a common token is in it (Scenario C: the sentences
\* about water and ice, not the one about the sky).
C20_FallbackExtract ==
    Called =>
        /\ reply.kept = ExpectedKept
        /\ reply.kind = "extract" <=> MatchStarts # {}
        /\ reply.kind = "extract" => JoinedByStop(reply.body, reply.kept)
        /\ \A n \in 1..Len(reply.kept) :
              TokenSet(reply.kept[n]) \cap TokenSet(request.query) # {}
        /\ (TopText = ScenarioCText /\ request.query = ScenarioCQuery)
              => reply.body = ScenarioCExtract

\* More than three segments of the top chunk match and one does not; a
\* second result is present.
C20_Witness ==
    /\ Called /\ reply.kind = "extract" /\ Len(reply.kept) = 3
    /\ Cardinality(MatchStarts) > 3
    /\ \E b \in {0} \cup Stops :
          b \notin MatchStarts /\ Trimmed(PieceAfter(b)) # <<>>
    /\ Len(request.context_chunks) = 2

\* C15: a query_documents request that arrives at an empty index is
\* answered with the fixed no-information message and an empty sources
\* list, having made no embedding call and no completion call.
C15_EmptyIndexQuery ==
    (http.op = "query_documents" /\ http.ntotal = 0) =>
        /\ http.status = 200
        /\ http.message = "no_relevant"
        /\ http.sources = <<>>
        /\ http.encodes = 0
        /\ http.backend_calls = 0

\* C16: right after delete_document(doc_id) succeeded, the index holds as
\* many entries as chunks survive and no entry of the store carries that
\* doc_id.
C16_DeleteRebuildsIndex ==
    (http.op = "delete_document" /\ http.status = 200) =>
        /\ ntotal(index) = Len(chunks_db)
        /\ \A i \in 1..Len(metadata) : metadata[i].doc_id # http.doc_id

\* The distinct source values of the first 3 results of the request.
TopSources ==
    {IF "source" \in DOMAIN request.context_chunks[i].metadata
     THEN request.context_chunks[i].metadata.source ELSE "Unknown" :
        i \in 1..Min(3, Len(request.context_chunks))}

Fallback == Called /\ reply.strategy = "fallback"

\* C21: the fallback response carries the multi-source note exactly when
\* more than one result was supplied and the first 3 span more than one
\* source; the note states the number of distinct sources among the first
\* 3 and lists each of them once.
C21_MultiSourceNote ==
    Fallback =>
        /\ reply.note_count > 0 <=>
              (Len(request.context_chunks) > 1 /\ Cardinality(TopSources) > 1)
        /\ reply.note_count > 0 =>
              /\ reply.note_count = Cardinality(TopSources)
              /\ Len(reply.listing) = Cardinality(TopSources)
              /\ set(reply.listing) = TopSources

\* Scenario D: two results from two distinct sources.
C21_Witness ==
    /\ Fallback /\ Len(request.context_chunks) = 2
    /\ reply.note_count = 2 /\ set(reply.listing) = {"doc1", "doc2"}

\* The source of result i, and the results at which a source of the
\* first 3 appears for the first time.
SourceAt(i) ==
    IF "source" \in DOMAIN request.context_chunks[i].metadata
    THEN request.context_chunks[i].metadata.source ELSE "Unknown"

FirstSeen ==
    {i \in 1..Min(3, Len(request.context_chunks)) :
        \A j \in 1..(i - 1) : SourceAt(j) # SourceAt(i)}

\* C22: the fallback lists the sources of the note in the order of the
\* results they come from (the same string for the same request, whatever
\* process answers it).
C22_SourcesInResultOrder ==
    (Fallback /\ reply.note_count > 0) =>
        \A a, b \in 1..Len(reply.listing) :
            a < b =>
                \E i, j \in FirstSeen :
                    /\ i < j
                    /\ SourceAt(i) = reply.listing[a]
                    /\ SourceAt(j) = reply.listing[b]

\* C23: context assembly renders the first 5 results at most, in their
\* order, block i with position i, the source ("Unknown" if absent), the
\* chunk_id (0 if absent) and the raw text; nothing of a later result.
C23_ContextFirstFive ==
    (Called /\ reply.n > 0) =>
        /\ Len(reply.context) = Min(5, Len(request.context_chunks))
        /\ \A i \in 1..Len(reply.context) :
              LET md == request.context_chunks[i].metadata
              IN  /\ reply.context[i].label = i
                  /\ reply.context[i].source = SourceAt(i)
                  /\ reply.context[i].chunk_id =
                        IF "chunk_id" \in DOMAIN md THEN md.chunk_id ELSE 0
                  /\ reply.context[i].text = request.context_chunks[i].text

\* Six results, one of the first five without source, handed to the
\* backend strategy.
C23_Witness ==
    /\ Called /\ reply.strategy = "backend"
    /\ Len(request.context_chunks) = 6 /\ Len(reply.context) = 5
    /\ \E i \in 1..5 : reply.context[i].source = "Unknown"
    /\ request.context_chunks[6] # request.context_chunks[5]

\* C27: every vector the index holds has the dimension get_stats reports,
\* and so does the index, whatever model the persisted files were written
\* under and whatever model the store is configured with.
C27_VectorsHaveIndexDimension ==
    /\ index.d = get_stats.dimension
    /\ \A i \in 1..ntotal(index) : Len(index.xb[i]) = get_stats.dimension

\* A store configured with the wider model has loaded entries written
\* under another one, and an add_documents on it has been turned down.
C27_Witness ==
    /\ model_name = WideModel /\ ntotal(index) > 0
    /\ disk.meta.data.model_name # model_name
    /\ last.op = "add_documents" /\ last.status = "AssertionError"

\* C28: a load that finds another model identity in the side-table keeps
\* every persisted vector, text and metadata entry.
C28_MismatchLoadKeepsEntries ==
    (last.op = "init" /\ load_warns(disk, model_name, "ok")) =>
        /\ last.status = "ok" /\ last.io = "loaded"
        /\ ntotal(index) = disk.index.ntotal
        /\ Flatten(index.xb) = disk.index.codes
        /\ texts = disk.meta.data.texts
        /\ metadata = disk.meta.data.metadata

C28_Witness ==
    /\ last.op = "init" /\ load_warns(disk, model_name, "ok")
    /\ ntotal(index) = 2 /\ Len(texts) = 2

\* C29: every persisted vector is the embedding, under the model the
\* side-table names, of the text persisted at its offset.
C29_PersistedModelProducedVectors ==
    (disk.index.state = "ok" /\ disk.meta.state = "ok"
        /\ disk.index.ntotal = Len(disk.meta.data.texts)) =>
        \A i \in 1..disk.index.ntotal :
            read_index(disk.index).xb[i] =
                normalize_L2(encode_texts(disk.meta.data.model_name,
                                          <<disk.meta.data.texts[i]>>))[1]

\* C30: chunks_db is empty exactly when the index holds no entry, and
\* query_documents answers 400 "No documents uploaded yet" only over an
\* index without entries.
C30_BookkeepingAgreesWithIndex ==
    /\ handler.pc = "idle" => ((chunks_db = <<>>) <=> (ntotal(index) = 0))
    /\ (http.op = "query_documents" /\ http.status = 400) =>
          http.ntotal = 0

\* The hits of the scan behind the last similarity_search, for query q,
\* and those of them whose offset is valid: not -1 and within the texts.
ScanOf(q) ==
    IndexSearch(index, normalize_L2(encode_texts(model_name, <<q>>))[1],
                Min(last.k, ntotal(index)))

ValidHits(hits) ==
    {i \in 1..Len(hits) : hits[i].idx # -1 /\ hits[i].idx < Len(texts)}

\* C26: a similarity_search that scanned the index does not raise on a hit
\* whose offset is -1 or lies beyond the texts: it returns one result for
\* each of the other hits, and every result is the text and the metadata
\* entry stored at the offset of one such hit, with its score.
C26_InvalidOffsetsDropped ==
    (last.op = "similarity_search" /\ last.encodes = 1 /\ last.k > 0) =>
        \E q \in Queries :
            LET hits == ScanOf(q)
                Valid == ValidHits(hits)
            IN  /\ (\A i \in Valid : hits[i].idx < Len(metadata)) =>
                      /\ last.status = "ok"
                      /\ Len(last.results) = Cardinality(Valid)
                /\ last.status = "ok" =>
                      \A r \in 1..Len(last.results) : \E i \in Valid :
                          last.results[r] =
                              [text |-> texts[hits[i].idx + 1],
                               metadata |-> metadata[hits[i].idx + 1],
                               score |-> hits[i].score]

\* The index holds a vector beyond the texts; the search returned the
\* entries within them only.
C26_Witness ==
    /\ last.op = "similarity_search" /\ last.status = "ok"
    /\ last.encodes = 1 /\ last.k = DefaultK
    /\ ntotal(index) = 2 /\ Len(texts) = 1
    /\ Len(last.results) = 1 /\ last.results[1].text = texts[1]

\* A step that constructs a new VectorStore: every coroutine is gone.
Constructs == last'.op = "init" /\ \A t \in Tasks : task'[t] = IdleTask

IsPrefix(a, b) == Len(a) <= Len(b) /\ SubSeq(b, 1, Len(a)) = a

Grows ==
    \/ ntotal(index') > ntotal(index)
    \/ Len(texts') > Len(texts)
    \/ Len(metadata') > Len(metadata)

Shrinks ==
    \/ ntotal(index') < ntotal(index)
    \/ Len(texts') < Len(texts)
    \/ Len(metadata') < Len(metadata)

\* C24: on a constructed store, only a return of add_documents grows the
\* index, the texts or the metadata, only clear takes entries away and it
\* takes all of them, a step of similarity_search or get_stats leaves the
\* index, the texts, the metadata and the files as they were, and every
\* step but clear keeps each existing entry at its offset.
C24_OnlyAddGrowsOnlyClearEmpties ==
    [][~Constructs =>
          /\ Grows => \E t \in Tasks : AddReturns(t)
          /\ Shrinks =>
                /\ last'.op = "clear" /\ UNCHANGED task
                /\ ntotal(index') = 0 /\ texts' = <<>> /\ metadata' = <<>>
          /\ ((\E t \in Tasks : SearchReturns(t))
                \/ (last'.op \in {"similarity_search", "get_stats"}
                      /\ UNCHANGED task)
                \/ (\E t \in Tasks : task[t].pc = "idle"
                                     /\ task'[t].pc = "search_await"))
                => UNCHANGED <<index, texts, metadata, disk>>
          /\ ~Shrinks =>
                /\ IsPrefix(index.xb, index'.xb)
                /\ IsPrefix(texts, texts')
                /\ IsPrefix(metadata, metadata')]_vars

\* A similarity_search has scanned a store of two entries whose files
\* were left half written by the add_documents before it.
C24_Witness ==
    /\ last.op = "similarity_search" /\ last.encodes = 1
    /\ ntotal(index) = 2 /\ Len(texts) = 2 /\ Len(metadata) = 2
    /\ disk.index.ntotal = 2 /\ Len(disk.meta.data.texts) = 1

====
